---- MODULE Spec2Model ----
(***************************************************************************)
(* Deep Socket.IO streaming server (langgraph/examples/                    *)
(* deep_streaming_server.py): the chat handler iterates the event stream   *)
(* of a three node graph (analyzer -> generator -> saver) and forwards     *)
(* node boundaries, model tokens and the stored record to the session      *)
(* that sent the message.                                                  *)
(*                                                                         *)
(* Text is a sequence of one-character strings, so that str(), slicing     *)
(* and "occurs in" are computed and not assumed.                           *)
(***************************************************************************)
EXTENDS Integers, Sequences, FiniteSets, TLC

\* ------------------------------------------------------------------ bounds
\* chat messages handled in one behaviour
MaxRuns == 2
\* on_chat_model_stream events of one model call
MaxChunks == 1
\* emits on which the transport raises (SpecT only)
MaxFaults == 1

\* ------------------------------------------------------- inputs, small sets
Sids == {"s1", "s2"}
\* the data of a chat message: with a message, or without one
Datas == { [message |-> <<"h", "i">>] }
\* the content of one streamed chunk (the model also streams empty chunks)
Chunks == { <<>>, <<"x">> }
\* str(e) of an exception raised by the model call
LlmErrors == { <<"b", "o", "o", "m">> }
\* str(e) of an exception raised by sio.emit
SendError == <<"s", "e", "n", "d">>
\* the wall clock values datetime.now() may show
Times == {0}

None == "None"

\* -------------------------------------------------------------------- text
Digits == <<"0", "1", "2", "3", "4", "5", "6", "7", "8", "9">>
UuidPrefix == <<"0", "0", "0", "0", "0", "0", "0", "0", "-", "0", "0", "0", "0", "-", "4", "0", "0", "0", "-", "8", "0", "0", "0", "-", "0", "0", "0", "0", "0", "0", "0", "0", "0", "0", "0">>
IsoPrefix == <<"2", "0", "2", "6", "-", "1", "1", "-", "0", "2", "T", "1", "4", ":", "0", "4", ":", "0", "5", ".", "0", "0", "0", "0", "0">>

\* str(uuid.uuid4()) of the n-th call: 36 characters, never repeated
Uuid4(n) == UuidPrefix \o <<Digits[(n % 10) + 1]>>

\* datetime.now().isoformat() at clock value t
IsoFormat(t) == IsoPrefix \o <<Digits[(t % 10) + 1]>>

\* the characters of a dict key
KeyChars(k) ==
    CASE k = "user_input" -> <<"u", "s", "e", "r", "_", "i", "n", "p", "u", "t">>
      [] k = "analysis" -> <<"a", "n", "a", "l", "y", "s", "i", "s">>
      [] k = "response" -> <<"r", "e", "s", "p", "o", "n", "s", "e">>
      [] k = "saved_record" -> <<"s", "a", "v", "e", "d", "_", "r", "e", "c", "o", "r", "d">>
      [] k = "id" -> <<"i", "d">>
      [] k = "created_at" -> <<"c", "r", "e", "a", "t", "e", "d", "_", "a", "t">>

\* repr() of a str without quotes or escapes in it
ReprStr(s) == <<"'">> \o s \o <<"'">>

\* "'key': " of a dict item
ReprKey(k) == ReprStr(KeyChars(k)) \o <<":", " ">>

\* the keys of a stored record in insertion order: id, created_at, **data
RecordKeys == <<"id", "created_at", "user_input", "analysis", "response">>

RECURSIVE ReprItems(_, _, _)
\* "'k1': 'v1', 'k2': 'v2'" for the keys of d from the i-th on
ReprItems(d, keys, i) ==
    IF i > Len(keys) THEN <<>>
    ELSE ReprKey(keys[i]) \o ReprStr(d[keys[i]])
         \o (IF i < Len(keys) THEN <<",", " ">> ELSE <<>>)
         \o ReprItems(d, keys, i + 1)

\* str() of a stored record
ReprRecord(rec) == <<"{">> \o ReprItems(rec, RecordKeys, 1) \o <<"}">>

\* str() of a node's output: one key, a text or the stored record
StrOutput(output) ==
    IF "saved_record" \in DOMAIN output
    THEN <<"{">> \o ReprKey("saved_record") \o ReprRecord(output.saved_record) \o <<"}">>
    ELSE IF "analysis" \in DOMAIN output
    THEN <<"{">> \o ReprKey("analysis") \o ReprStr(output.analysis) \o <<"}">>
    ELSE <<"{">> \o ReprKey("response") \o ReprStr(output.response) \o <<"}">>

\* mutant: the cut keeps one character more
SliceOneMore(s, n) == SubSeq(s, 1, IF Len(s) < n + 1 THEN Len(s) ELSE n + 1)

\* s[:n]
Slice(s, n) == SubSeq(s, 1, IF Len(s) < n THEN Len(s) ELSE n)

\* the maximum length of node_end's output
OutputLimit == 500

RECURSIVE Concat(_)
\* the content of the message aggregated from the streamed chunks
Concat(chunks) ==
    IF chunks = <<>> THEN <<>> ELSE Head(chunks) \o Concat(Tail(chunks))

\* sub occurs in s
Occurs(sub, s) ==
    \E i \in 1..(Len(s) - Len(sub) + 1) : SubSeq(s, i, i + Len(sub) - 1) = sub

\* ------------------------------------------------------------------- graph
NODE_NAMES == {"analyzer", "generator", "saver"}

\* START -> analyzer -> generator -> saver -> END
Order == <<"analyzer", "generator", "saver">>

\* the nodes that call the model
LlmNodes == {"analyzer", "generator"}

\* the name the compiled graph gives its own run
GraphName == "LangGraph"


\* ----------------------------------------------------------- mock database
\* MockDatabase.save after its sleep: the record of the n-th uuid at clock t
NewRecord(data, n, t) ==
    [id |-> Uuid4(n), created_at |-> IsoFormat(t),
     user_input |-> data.user_input, analysis |-> data.analysis,
     response |-> data.response]

\* mutant: the list is rebuilt from the new record alone
AppendRecordAlone(recs, record) == <<record>>

\* self.records.append(record)
AppendRecord(recs, record) == Append(recs, record)

\* ------------------------------------------------------------------- nodes
\* analyzer_node: the prompt reads user_input, the update is the model's text
AnalyzerNode(state, content) == [analysis |-> content]

\* mutant: generator also rewrites the analysis it read
GeneratorNodeRewrites(state, content) ==
    [response |-> content, analysis |-> state.analysis \o <<"!">>]

\* generator_node: the prompt reads user_input and analysis
GeneratorNode(state, content) == [response |-> content]

\* the dict saver_node hands to mock_db.save
SaveData(state) ==
    [user_input |-> state.user_input, analysis |-> state.analysis,
     response |-> state.response]

\* saver_node's update
SaverNode(record) == [saved_record |-> record]

\* the graph state after a node's update: the update's keys are overwritten
Merge(state, update) ==
    [k \in DOMAIN state \cup DOMAIN update |->
        IF k \in DOMAIN update THEN update[k] ELSE state[k]]

\* ------------------------------------------------------------ chat handler
\* data.get("message", "")
GetMessage(data) == IF "message" \in DOMAIN data THEN data.message ELSE <<>>

\* mutant: the emit names no recipient, so every session receives it
EmitBroadcast(event, data, sid) == [event |-> event, data |-> data, to |-> None]

\* one call sio.emit(event, data, to=sid)
EmitCall(event, data, sid) == [event |-> event, data |-> data, to |-> sid]

\* mutant: current_node is not updated when a node is entered
OnChainStartStaleNode(cur, ev, sid) ==
    IF ev.name \in NODE_NAMES
    THEN [current_node |-> cur,
          calls |-> <<EmitCall("node_start", [node |-> ev.name], sid)>>]
    ELSE [current_node |-> cur, calls |-> <<>>]

\* mutant: node_start for every on_chain_start, whatever its name
OnChainStartUnfiltered(cur, ev, sid) ==
    [current_node |-> ev.name,
     calls |-> <<EmitCall("node_start", [node |-> ev.name], sid)>>]

\* kind == "on_chain_start"
OnChainStart(cur, ev, sid) ==
    IF ev.name \in NODE_NAMES
    THEN [current_node |-> ev.name,
          calls |-> <<EmitCall("node_start", [node |-> ev.name], sid)>>]
    ELSE [current_node |-> cur, calls |-> <<>>]

\* mutant: node_end for every on_chain_end, whatever its name
OnChainEndUnfiltered(cur, ev, sid) ==
    LET output == ev.data.output
        end == EmitCall("node_end",
                   [node |-> ev.name,
                    output |-> Slice(StrOutput(output), OutputLimit)], sid)
    IN  [current_node |-> cur,
         calls |-> IF ev.name = "saver" /\ "saved_record" \in DOMAIN output
                   THEN <<end, EmitCall("db_save", output.saved_record, sid)>>
                   ELSE <<end>>]

\* mutant: db_save is emitted before node_end
OnChainEndSaveFirst(cur, ev, sid) ==
    IF ev.name \in NODE_NAMES
    THEN LET output == ev.data.output
             end == EmitCall("node_end",
                        [node |-> ev.name,
                         output |-> Slice(StrOutput(output), OutputLimit)], sid)
         IN  [current_node |-> cur,
              calls |-> IF ev.name = "saver" /\ "saved_record" \in DOMAIN output
                        THEN <<EmitCall("db_save", output.saved_record, sid), end>>
                        ELSE <<end>>]
    ELSE [current_node |-> cur, calls |-> <<>>]

\* kind == "on_chain_end"
OnChainEnd(cur, ev, sid) ==
    IF ev.name \in NODE_NAMES
    THEN LET output == ev.data.output
             end == EmitCall("node_end",
                        [node |-> ev.name,
                         output |-> Slice(StrOutput(output), OutputLimit)], sid)
         IN  [current_node |-> cur,
              calls |-> IF ev.name = "saver" /\ "saved_record" \in DOMAIN output
                        THEN <<end, EmitCall("db_save", output.saved_record, sid)>>
                        ELSE <<end>>]
    ELSE [current_node |-> cur, calls |-> <<>>]

\* mutant: the content of the chunk is not looked at
OnChatModelStreamAnyContent(cur, ev, sid) ==
    IF "chunk" \in DOMAIN ev.data
    THEN [current_node |-> cur,
          calls |-> <<EmitCall("token",
                        [node |-> cur, content |-> ev.data.chunk.content], sid)>>]
    ELSE [current_node |-> cur, calls |-> <<>>]

\* kind == "on_chat_model_stream"
OnChatModelStream(cur, ev, sid) ==
    IF "chunk" \in DOMAIN ev.data /\ ev.data.chunk.content # <<>>
    THEN [current_node |-> cur,
          calls |-> <<EmitCall("token",
                        [node |-> cur, content |-> ev.data.chunk.content], sid)>>]
    ELSE [current_node |-> cur, calls |-> <<>>]

\* the body of the async for loop for one event of the stream
LoopBody(cur, ev, sid) ==
    CASE ev.event = "on_chain_start" -> OnChainStart(cur, ev, sid)
      [] ev.event = "on_chain_end" -> OnChainEnd(cur, ev, sid)
      [] ev.event = "on_chat_model_stream" -> OnChatModelStream(cur, ev, sid)
      [] OTHER -> [current_node |-> cur, calls |-> <<>>]

\* ------------------------------------------------------------------- state
VARIABLES
    session,  \* sid -> "new" | "connected" | "gone"
    hello,    \* sid -> the emits of its connect handler
    nruns,    \* chat handlers started so far
    run,      \* handler -> its locals, its graph run and its emits
    records,  \* mock_db.records
    uuids,    \* uuid4 calls so far
    faults    \* emits on which the transport will still raise

vars == <<session, hello, nruns, run, records, uuids, faults>>

Runs == 1..MaxRuns

\* a chat handler that has not been started
IdleRun ==
    [sid |-> None, user_input |-> <<>>, pc |-> "idle", current_node |-> None,
     exc |-> <<>>, emits |-> <<>>,
     g |-> "begin", node |-> 0, acc |-> <<>>, ret |-> {},
     state |-> [user_input |-> <<>>], produced |-> <<>>]

\* the handler's locals before the loop, and the graph run it iterates
StartRun(sid, data) ==
    [IdleRun EXCEPT !.sid = sid, !.user_input = GetMessage(data), !.pc = "loop",
                    !.current_node = None,
                    !.state = [user_input |-> GetMessage(data)]]

InitCommon ==
    /\ session = [s \in Sids |-> "new"]
    /\ hello = [s \in Sids |-> <<>>]
    /\ nruns = 0
    /\ run = [r \in Runs |-> IdleRun]
    /\ records = <<>>
    /\ uuids = 0

\* the transport never raises
Init == InitCommon /\ faults = 0

\* the transport raises on at most MaxFaults emits
InitT == InitCommon /\ faults = MaxFaults

\* ---------------------------------------------------------------- sessions
\* connect(sid, environ)
Connect(s) ==
    /\ session[s] = "new"
    /\ session' = [session EXCEPT ![s] = "connected"]
    /\ hello' = [hello EXCEPT ![s] = Append(@, EmitCall("connected", [sid |-> s], s))]
    /\ UNCHANGED <<nruns, run, records, uuids, faults>>

\* disconnect(sid): prints, touches no handler
Disconnect(s) ==
    /\ session[s] = "connected"
    /\ session' = [session EXCEPT ![s] = "gone"]
    /\ UNCHANGED <<hello, nruns, run, records, uuids, faults>>

\* mutant: a session is served one chat only
ChatOncePerSession(s, data) ==
    /\ session[s] = "connected"
    /\ \A r \in Runs : run[r].sid # s
    /\ nruns < MaxRuns
    /\ nruns' = nruns + 1
    /\ run' = [run EXCEPT ![nruns + 1] = StartRun(s, data)]
    /\ UNCHANGED <<session, hello, records, uuids, faults>>

\* chat(sid, data) up to the loop: every message starts a handler
Chat(s, data) ==
    /\ session[s] = "connected"
    /\ nruns < MaxRuns
    /\ nruns' = nruns + 1
    /\ run' = [run EXCEPT ![nruns + 1] = StartRun(s, data)]
    /\ UNCHANGED <<session, hello, records, uuids, faults>>

\* ----------------------------------------------------- one loop iteration
\* the emit calls of the iteration for ev, in their order
Calls(h, ev) == LoopBody(h.current_node, ev, h.sid).calls

\* where the transport may raise in an iteration: nowhere (0), or at the k-th call
FaultPoints(calls) == {0} \cup (IF faults > 0 THEN 1..Len(calls) ELSE {})

\* mutant: the iteration's emits overtake the earlier ones
IterateOvertaking(h, ev, k) ==
    LET b == LoopBody(h.current_node, ev, h.sid)
    IN  [h EXCEPT !.produced = Append(@, ev),
                  !.current_node = b.current_node,
                  !.emits = (IF k = 0 THEN b.calls ELSE SubSeq(b.calls, 1, k - 1)) \o @,
                  !.pc = IF k = 0 THEN "loop" ELSE "except",
                  !.exc = IF k = 0 THEN @ ELSE SendError]

\* mutant: current_node is one variable of the module, here the first handler's
IterateSharedNode(h, ev, k) ==
    LET b == LoopBody(run[1].current_node, ev, h.sid)
    IN  [h EXCEPT !.produced = Append(@, ev),
                  !.current_node = b.current_node,
                  !.emits = @ \o (IF k = 0 THEN b.calls ELSE SubSeq(b.calls, 1, k - 1)),
                  !.pc = IF k = 0 THEN "loop" ELSE "except",
                  !.exc = IF k = 0 THEN @ ELSE SendError]

\* the handler after the iteration for ev; its k-th emit raises (k = 0: none does)
\* and the exception leaves the loop for the except clause
Iterate(h, ev, k) ==
    LET b == LoopBody(h.current_node, ev, h.sid)
    IN  [h EXCEPT !.produced = Append(@, ev),
                  !.current_node = b.current_node,
                  !.emits = @ \o (IF k = 0 THEN b.calls ELSE SubSeq(b.calls, 1, k - 1)),
                  !.pc = IF k = 0 THEN "loop" ELSE "except",
                  !.exc = IF k = 0 THEN @ ELSE SendError]

\* the events of graph.astream_events(..., version="v2")
ChainStart(name) == [event |-> "on_chain_start", name |-> name, data |-> <<>>]

ChainEnd(name, output) ==
    [event |-> "on_chain_end", name |-> name, data |-> [output |-> output]]

ChainStream(name, chunk) ==
    [event |-> "on_chain_stream", name |-> name, data |-> [chunk |-> chunk]]

ChatModelStream(content) ==
    [event |-> "on_chat_model_stream", name |-> "ChatOllama",
     data |-> [chunk |-> [content |-> content]]]

RECURSIVE Consume(_, _)
\* the handler after the iterations for evs, none of whose emits raises
Consume(h, evs) ==
    IF evs = <<>> THEN h ELSE Consume(Iterate(h, Head(evs), 0), Tail(evs))

\* the update the running node returns
NodeOutput(h) ==
    CASE Order[h.node] = "analyzer" -> AnalyzerNode(h.state, Concat(h.acc))
      [] Order[h.node] = "generator" -> GeneratorNode(h.state, Concat(h.acc))
      [] Order[h.node] = "saver" -> CHOOSE o \in h.ret : TRUE

\* the graph's events between two nodes, which the loop passes without an
\* await: first its own on_chain_start, later the merged update it streams
Between(h) ==
    IF h.g = "begin" THEN <<ChainStart(GraphName)>>
    ELSE <<ChainStream(GraphName, CHOOSE o \in h.ret : TRUE)>>

\* mutant: the exited node's update is not merged
MergedNothing(h) == h.state

\* the graph state once the exited node's update is merged
Merged(h) ==
    IF h.g = "begin" THEN h.state ELSE Merge(h.state, CHOOSE o \in h.ret : TRUE)

\* the next node of the order is entered
NodeStart(r) ==
    /\ run[r].pc = "loop"
    /\ \/ run[r].g = "begin"
       \/ run[r].g = "exited" /\ run[r].node < Len(Order)
    /\ LET h == Consume(run[r], Between(run[r]))
           ev == ChainStart(Order[run[r].node + 1])
       IN  \E k \in FaultPoints(Calls(h, ev)) :
             /\ run' = [run EXCEPT ![r] =
                          [Iterate(h, ev, k) EXCEPT !.g = "running",
                                                    !.node = run[r].node + 1,
                                                    !.state = Merged(run[r]),
                                                    !.acc = <<>>, !.ret = {}]]
             /\ faults' = IF k = 0 THEN faults ELSE faults - 1
    /\ UNCHANGED <<session, hello, nruns, records, uuids>>

\* llm.ainvoke streams one more chunk
LlmChunk(r, c) ==
    /\ run[r].pc = "loop" /\ run[r].g = "running"
    /\ Order[run[r].node] \in LlmNodes
    /\ Len(run[r].acc) < MaxChunks
    /\ LET ev == ChatModelStream(c)
       IN  \E k \in FaultPoints(Calls(run[r], ev)) :
             /\ run' = [run EXCEPT ![r] =
                          [Iterate(run[r], ev, k) EXCEPT !.acc = Append(@, c)]]
             /\ faults' = IF k = 0 THEN faults ELSE faults - 1
    /\ UNCHANGED <<session, hello, nruns, records, uuids>>

\* llm.ainvoke raises: the node fails and the stream raises into the handler
LlmRaises(r, e) ==
    /\ run[r].pc = "loop" /\ run[r].g = "running"
    /\ Order[run[r].node] \in LlmNodes
    /\ run' = [run EXCEPT ![r].pc = "except", ![r].exc = e, ![r].g = "failed"]
    /\ UNCHANGED <<session, hello, nruns, records, uuids, faults>>

\* mutant: the store hands back its first record instead of the new one
DbSaveReturnsFirst(r, t) ==
    /\ run[r].pc = "loop" /\ run[r].g = "running"
    /\ Order[run[r].node] = "saver"
    /\ run[r].ret = {}
    /\ LET record == NewRecord(SaveData(run[r].state), uuids, t)
       IN  /\ records' = AppendRecord(records, record)
           /\ run' = [run EXCEPT ![r].ret = {SaverNode(records'[1])}]
    /\ uuids' = uuids + 1
    /\ UNCHANGED <<session, hello, nruns, faults>>

\* saver_node: mock_db.save stores the record at clock t
DbSave(r, t) ==
    /\ run[r].pc = "loop" /\ run[r].g = "running"
    /\ Order[run[r].node] = "saver"
    /\ run[r].ret = {}
    /\ LET record == NewRecord(SaveData(run[r].state), uuids, t)
       IN  /\ records' = AppendRecord(records, record)
           /\ run' = [run EXCEPT ![r].ret = {SaverNode(record)}]
    /\ uuids' = uuids + 1
    /\ UNCHANGED <<session, hello, nruns, faults>>

\* the running node returns its update
NodeEnd(r) ==
    /\ run[r].pc = "loop" /\ run[r].g = "running"
    /\ Order[run[r].node] = "saver" => run[r].ret # {}
    /\ LET output == NodeOutput(run[r])
           ev == ChainEnd(Order[run[r].node], output)
       IN  \E k \in FaultPoints(Calls(run[r], ev)) :
             /\ run' = [run EXCEPT ![r] =
                          [Iterate(run[r], ev, k) EXCEPT !.g = "exited",
                                                         !.ret = {output}]]
             /\ faults' = IF k = 0 THEN faults ELSE faults - 1
    /\ UNCHANGED <<session, hello, nruns, records, uuids>>

\* mutant: done is emitted and an exception still reaches the except clause
DoneThenRaise(r) ==
    /\ run[r].pc = "loop"
    /\ run[r].g = "exited" /\ run[r].node = Len(Order)
    /\ run' = [run EXCEPT ![r].emits =
                              Append(@, EmitCall("done", [success |-> TRUE], run[r].sid)),
                          ![r].g = "exhausted", ![r].pc = "except",
                          ![r].exc = SendError]
    /\ UNCHANGED <<session, hello, nruns, records, uuids, faults>>

\* mutant: the stream never ends after the last node
DoneNever(r) ==
    /\ run[r].pc = "loop"
    /\ run[r].g = "exited" /\ run[r].node = Len(Order)
    /\ UNCHANGED vars

\* after the last node the graph's own on_chain_end closes the stream and the
\* loop ends: sio.emit("done", ...), still inside the try
Done(r) ==
    /\ run[r].pc = "loop"
    /\ run[r].g = "exited" /\ run[r].node = Len(Order)
    /\ LET h == [Consume(run[r], Between(run[r])
                         \o <<ChainEnd(GraphName, Merged(run[r]))>>)
                   EXCEPT !.g = "exhausted", !.state = Merged(run[r]), !.ret = {}]
           done == EmitCall("done", [success |-> TRUE], h.sid)
       IN  \E k \in FaultPoints(<<done>>) :
             /\ run' = [run EXCEPT ![r] =
                          IF k = 0
                          THEN [h EXCEPT !.emits = Append(@, done), !.pc = "finished"]
                          ELSE [h EXCEPT !.pc = "except", !.exc = SendError]]
             /\ faults' = IF k = 0 THEN faults ELSE faults - 1
    /\ UNCHANGED <<session, hello, nruns, records, uuids>>

\* mutant: the error event does not carry str(e)
ReportErrorNoMessage(r) ==
    /\ run[r].pc = "except"
    /\ run' = [run EXCEPT ![r].emits =
                              Append(@, EmitCall("error", [message |-> <<>>], run[r].sid)),
                          ![r].pc = "finished"]
    /\ UNCHANGED <<session, hello, nruns, records, uuids, faults>>

\* except Exception as e: sio.emit("error", {"message": str(e)}); when this
\* emit raises too the handler ends with the exception
ReportError(r) ==
    /\ run[r].pc = "except"
    /\ LET error == EmitCall("error", [message |-> run[r].exc], run[r].sid)
       IN  \E k \in FaultPoints(<<error>>) :
             /\ run' = [run EXCEPT ![r] =
                          IF k = 0
                          THEN [run[r] EXCEPT !.emits = Append(@, error),
                                              !.pc = "finished"]
                          ELSE [run[r] EXCEPT !.pc = "crashed"]]
             /\ faults' = IF k = 0 THEN faults ELSE faults - 1
    /\ UNCHANGED <<session, hello, nruns, records, uuids>>

\* --------------------------------------------------------- specifications
Next ==
    \/ \E s \in Sids : Connect(s)
    \/ \E s \in Sids : Disconnect(s)
    \/ \E s \in Sids, data \in Datas : Chat(s, data)
    \/ \E r \in Runs : NodeStart(r)
    \/ \E r \in Runs, c \in Chunks : LlmChunk(r, c)
    \/ \E r \in Runs, e \in LlmErrors : LlmRaises(r, e)
    \/ \E r \in Runs, t \in Times : DbSave(r, t)
    \/ \E r \in Runs : NodeEnd(r)
    \/ \E r \in Runs : Done(r)
    \/ \E r \in Runs : ReportError(r)

\* the transport delivers every emit
Spec == Init /\ [][Next]_vars

\* the transport raises on some emits
SpecT == InitT /\ [][Next]_vars

\* chat data with a message and without one
AllDatas == Datas \cup { [text |-> <<"y", "o">>] }

\* the steps of connected sessions whose messages differ
NextD ==
    \/ \E s \in Sids : Connect(s)
    \/ \E s \in Sids, data \in AllDatas : Chat(s, data)
    \/ \E r \in Runs : NodeStart(r)
    \/ \E r \in Runs, c \in Chunks : LlmChunk(r, c)
    \/ \E r \in Runs, e \in LlmErrors : LlmRaises(r, e)
    \/ \E r \in Runs, t \in Times : DbSave(r, t)
    \/ \E r \in Runs : NodeEnd(r)
    \/ \E r \in Runs : Done(r)
    \/ \E r \in Runs : ReportError(r)

\* runs of sessions that stay connected, with different requests
SpecD == Init /\ [][NextD]_vars

\* model texts that bring str() of an update just under, onto and just over
\* OutputLimit: "{'analysis': '" and "'}" take 16 characters, "{'response': '"
\* and "'}" as many
LongChunks ==
    { [i \in 1..n |-> "x"] : n \in (OutputLimit - 17)..(OutputLimit - 15) }

\* the first chat message of the server
FirstChat(s, data) == nruns = 0 /\ Chat(s, data)

\* the steps of one run whose model returns short and long texts
NextText ==
    \/ \E s \in Sids : Connect(s)
    \/ \E s \in Sids, data \in AllDatas : FirstChat(s, data)
    \/ \E r \in Runs : NodeStart(r)
    \/ \E r \in Runs, c \in Chunks \cup LongChunks : LlmChunk(r, c)
    \/ \E r \in Runs, t \in Times : DbSave(r, t)
    \/ \E r \in Runs : NodeEnd(r)
    \/ \E r \in Runs : Done(r)

\* one run with texts around the limit of node_end's output
SpecText == Init /\ [][NextText]_vars

\* the steps of connected sessions when the model streams text only
NextF ==
    \/ \E s \in Sids : Connect(s)
    \/ \E s \in Sids, data \in Datas : Chat(s, data)
    \/ \E r \in Runs : NodeStart(r)
    \/ \E r \in Runs, c \in Chunks \ {<<>>} : LlmChunk(r, c)
    \/ \E r \in Runs, e \in LlmErrors : LlmRaises(r, e)
    \/ \E r \in Runs, t \in Times : DbSave(r, t)
    \/ \E r \in Runs : NodeEnd(r)
    \/ \E r \in Runs : Done(r)
    \/ \E r \in Runs : ReportError(r)

\* the steps of the handler of r and of the graph run it iterates
RunStep(r) ==
    \/ NodeStart(r)
    \/ \E c \in Chunks : LlmChunk(r, c)
    \/ \E e \in LlmErrors : LlmRaises(r, e)
    \/ \E t \in Times : DbSave(r, t)
    \/ NodeEnd(r)
    \/ Done(r)
    \/ ReportError(r)

\* the event loop resumes every handler that can run, and every call of the
\* model and of the store returns or raises
SpecFair == InitT /\ [][NextF]_vars /\ \A r \in Runs : WF_vars(RunStep(r))

\* ------------------------------------------------------------- vocabulary
\* the handler of r was started and has neither returned nor raised
InFlight(r) == run[r].pc \in {"loop", "except"}

\* the handler of r has returned or raised
Ended(r) == run[r].pc \in {"finished", "crashed"}

IsTerminal(e) == e.event \in {"done", "error"}

IsBoundary(e) == e.event \in {"node_start", "node_end"}

\* the positions of the emits of r that satisfy P
Where(r, P(_)) == {i \in 1..Len(run[r].emits) : P(run[r].emits[i])}

LastEmit(r) == run[r].emits[Len(run[r].emits)]

\* an emitted event without its payload: its name and the node it names
Tag(e) ==
    IF e.event \in {"node_start", "node_end", "token"}
    THEN <<e.event, e.data.node>>
    ELSE <<e.event, None>>

\* the automaton of a successful run's event sequence; 9 accepts, 99 rejects
StepShape(q, t) ==
    CASE q = 0 /\ t = <<"node_start", "analyzer">> -> 1
      [] q = 1 /\ t = <<"token", "analyzer">> -> 1
      [] q = 1 /\ t = <<"node_end", "analyzer">> -> 2
      [] q = 2 /\ t = <<"node_start", "generator">> -> 3
      [] q = 3 /\ t = <<"token", "generator">> -> 3
      [] q = 3 /\ t = <<"node_end", "generator">> -> 4
      [] q = 4 /\ t = <<"node_start", "saver">> -> 5
      [] q = 5 /\ t = <<"node_end", "saver">> -> 6
      [] q = 6 /\ t = <<"db_save", None>> -> 7
      [] q = 7 /\ t = <<"done", None>> -> 9
      [] OTHER -> 99

RECURSIVE RunShape(_, _, _)
RunShape(q, es, i) ==
    IF i > Len(es) THEN q ELSE RunShape(StepShape(q, Tag(es[i])), es, i + 1)

\* C1: a run that ends with done has emitted exactly node_start(analyzer),
\* token(analyzer)*, node_end(analyzer), node_start(generator),
\* token(generator)*, node_end(generator), node_start(saver), node_end(saver),
\* db_save, done.
C1_SuccessfulRunShape ==
    \A r \in Runs :
        (run[r].emits # <<>> /\ LastEmit(r).event = "done")
            => RunShape(0, run[r].emits, 1) = 9

\* a run has ended with done after tokens of both model stages
C1_Witness ==
    \E r \in Runs :
        /\ run[r].pc = "finished" /\ LastEmit(r).event = "done"
        /\ \E i, j \in 1..Len(run[r].emits) :
             /\ Tag(run[r].emits[i]) = <<"token", "analyzer">>
             /\ Tag(run[r].emits[j]) = <<"token", "generator">>

\* C2 as stated: at most one of done and error is emitted, nothing follows it,
\* and a handler that has ended has emitted exactly one of them.
C2_ExactlyOneTerminal ==
    \A r \in Runs :
        /\ Cardinality(Where(r, IsTerminal)) <= 1
        /\ Where(r, IsTerminal) \subseteq {Len(run[r].emits)}
        /\ Ended(r) => Cardinality(Where(r, IsTerminal)) = 1

\* C2 amended: at most one of done and error is emitted and nothing follows
\* it; a handler that returns has emitted exactly one; a handler ends without
\* either only by raising, when the emit of error itself raised.
C2_AtMostOneTerminal ==
    \A r \in Runs :
        /\ Cardinality(Where(r, IsTerminal)) <= 1
        /\ Where(r, IsTerminal) \subseteq {Len(run[r].emits)}
        /\ run[r].pc = "finished" <=> Cardinality(Where(r, IsTerminal)) = 1
        /\ run[r].pc = "crashed" => faults < MaxFaults

\* the emit of done raised after the whole graph ran, and error was emitted
C2_Witness ==
    \E r \in Runs :
        /\ run[r].pc = "finished" /\ run[r].g = "exhausted"
        /\ LastEmit(r).event = "error" /\ LastEmit(r).data.message = SendError
        /\ Where(r, IsTerminal) = {Len(run[r].emits)}

\* C3: a chat message that arrives while an earlier run of its session is in
\* flight starts no graph run and emits nothing.
C3_SecondChatRejected ==
    \A r1, r2 \in Runs :
        (r1 < r2 /\ run[r1].sid = run[r2].sid /\ InFlight(r1))
            => (run[r2].g = "begin" /\ run[r2].emits = <<>>)

\* C4: a session has at most one run in flight.
C4_OneRunPerSession ==
    \A s \in Sids : Cardinality({r \in Runs : run[r].sid = s /\ InFlight(r)}) <= 1

\* C5: once its session has disconnected a run emits nothing more.
C5_NoEmitAfterDisconnect ==
    [][\A r \in Runs :
          (run[r].pc # "idle" /\ session[run[r].sid] = "gone")
              => run'[r].emits = run[r].emits]_vars

\* C6: every emit of a chat handler is addressed to the session that sent
\* the message, the connected event to the session that connected; none is
\* addressed to another session or to nobody (a broadcast).
C6_EmitsToOwnSession ==
    /\ \A r \in Runs : \A i \in 1..Len(run[r].emits) :
           run[r].emits[i].to = run[r].sid /\ run[r].sid \in Sids
    /\ \A s \in Sids : \A i \in 1..Len(hello[s]) :
           hello[s][i].to = s /\ hello[s][i].data.sid = s

\* runs of two sessions have both emitted tokens, after both were greeted
C6_Witness ==
    \E r1, r2 \in Runs :
        /\ run[r1].sid \in Sids /\ run[r2].sid \in Sids
        /\ run[r1].sid # run[r2].sid
        /\ hello[run[r1].sid] # <<>> /\ hello[run[r2].sid] # <<>>
        /\ InFlight(r1) /\ InFlight(r2)
        /\ \E i \in 1..Len(run[r1].emits) : run[r1].emits[i].event = "token"
        /\ \E i \in 1..Len(run[r2].emits) : run[r2].emits[i].event = "token"

\* C7: the last node boundary emitted before a token is the node_start of the
\* node the token names.
C7_TokenInsideItsNode ==
    \A r \in Runs : \A i \in 1..Len(run[r].emits) :
        run[r].emits[i].event = "token" =>
            \E j \in 1..(i - 1) :
                /\ Tag(run[r].emits[j]) = <<"node_start", run[r].emits[i].data.node>>
                /\ \A m \in (j + 1)..(i - 1) : ~IsBoundary(run[r].emits[m])

\* a token of the generator was emitted, after the analyzer was left
C7_Witness ==
    \E r \in Runs : \E i, j \in 1..Len(run[r].emits) :
        /\ j < i
        /\ Tag(run[r].emits[j]) = <<"node_end", "analyzer">>
        /\ Tag(run[r].emits[i]) = <<"token", "generator">>

\* the texts an emitted event carries
Texts(e) ==
    CASE e.event = "node_end" -> {e.data.output}
      [] e.event = "token" -> {e.data.content}
      [] e.event = "error" -> {e.data.message}
      [] e.event = "db_save" -> {e.data[k] : k \in DOMAIN e.data}
      [] OTHER -> {}

\* the text shows in the event
ShownIn(text, e) == \E t \in Texts(e) : Occurs(text, t)

\* db_save comes at most once, right after node_end(saver), with the record the
\* saver returned and the store holds, whose id and created_at show in no emit
\* of the run before position `upto`
DbSaveAfterSaver(r, i, upto) ==
    /\ Where(r, LAMBDA e : e.event = "db_save") = {i}
    /\ i > 1 /\ Tag(run[r].emits[i - 1]) = <<"node_end", "saver">>
    /\ run[r].node = Len(Order) /\ run[r].ret \cup {run[r].state} # {}
    /\ \E o \in run[r].ret \cup {run[r].state} :
           "saved_record" \in DOMAIN o /\ o.saved_record = run[r].emits[i].data
    /\ \E n \in 1..Len(records) : records[n] = run[r].emits[i].data
    /\ \A j \in 1..upto :
           /\ ~ShownIn(run[r].emits[i].data.id, run[r].emits[j])
           /\ ~ShownIn(run[r].emits[i].data.created_at, run[r].emits[j])

\* C8 as stated: the record's id and created_at show in no emit before db_save.
C8_RecordNewAtDbSave ==
    \A r \in Runs : \A i \in 1..Len(run[r].emits) :
        run[r].emits[i].event = "db_save" => DbSaveAfterSaver(r, i, i - 1)

\* C8 amended: the record's id and created_at show in no emit before
\* node_end(saver), whose output text already renders the record.
C8_RecordNewAtSaverEnd ==
    \A r \in Runs : \A i \in 1..Len(run[r].emits) :
        run[r].emits[i].event = "db_save" =>
            /\ DbSaveAfterSaver(r, i, i - 2)
            /\ ShownIn(run[r].emits[i].data.id, run[r].emits[i - 1])

\* two runs have emitted db_save, the second with the store's second record
C8_Witness ==
    \E r1, r2 \in Runs :
        /\ r1 # r2
        /\ run[r1].emits # <<>> /\ LastEmit(r1).event = "db_save"
        /\ run[r2].emits # <<>> /\ LastEmit(r2).event = "done"
        /\ LastEmit(r1).data = records[Len(records)]

\* the run has called mock_db.save
HasSaved(r) ==
    \E o \in run[r].ret \cup {run[r].state} : "saved_record" \in DOMAIN o

\* C9: after a stage raised, the run has entered the failed stage once and no
\* later stage, has emitted no db_save and no done and has stored no record
\* (the store holds one record per run that saved); it emits nothing before the
\* error event, which carries the raised error's text and ends the sequence.
C9_StageFailureEndsRun ==
    /\ \A r \in Runs :
         run[r].g = "failed" =>
           /\ \A i \in 1..Len(run[r].emits) :
                /\ run[r].emits[i].event \notin {"db_save", "done"}
                /\ run[r].emits[i].event = "node_start" =>
                     \E m \in 1..run[r].node : run[r].emits[i].data.node = Order[m]
           /\ Cardinality(Where(r, LAMBDA e :
                  Tag(e) = <<"node_start", Order[run[r].node]>>)) = 1
           /\ ~HasSaved(r)
           /\ run[r].pc \in {"except", "finished"}
           /\ run[r].pc = "except" => Where(r, IsTerminal) = {}
           /\ run[r].pc = "finished" =>
                /\ Where(r, IsTerminal) = {Len(run[r].emits)}
                /\ LastEmit(r).event = "error"
                /\ LastEmit(r).data.message = run[r].exc
                /\ run[r].exc \in LlmErrors
    /\ Len(records) = Cardinality({r \in Runs : HasSaved(r)})

\* the generator of one run raised after a token and the run has ended with
\* error, while another run has saved its record
C9_Witness ==
    \E r1, r2 \in Runs :
        /\ run[r1].g = "failed" /\ run[r1].pc = "finished"
        /\ Order[run[r1].node] = "generator"
        /\ \E i \in 1..Len(run[r1].emits) :
               Tag(run[r1].emits[i]) = <<"token", "generator">>
        /\ HasSaved(r2) /\ Len(records) = 1

\* an internal event of a stage: entered, exited, fragment produced
IsStageEvent(ev) ==
    \/ ev.event \in {"on_chain_start", "on_chain_end"} /\ ev.name \in NODE_NAMES
    \/ ev.event = "on_chat_model_stream"

\* a fragment without content
IsEmptyFragment(ev) ==
    ev.event = "on_chat_model_stream" /\ ev.data.chunk.content = <<>>

\* the external event an internal event of a stage stands for
External(ev) ==
    CASE ev.event = "on_chain_start" -> <<"node_start", ev.name>>
      [] ev.event = "on_chain_end" -> <<"node_end", ev.name>>
      [] ev.event = "on_chat_model_stream" -> <<"token", ev.data.chunk.content>>

\* what an emitted stage event shows of its internal event
Shown(e) ==
    IF e.event = "token" THEN <<"token", e.data.content>> ELSE <<e.event, e.data.node>>

\* the stage events among the emits of r, in their order
Forwarded(r) ==
    LET es == SelectSeq(run[r].emits,
                        LAMBDA e : e.event \in {"node_start", "node_end", "token"})
    IN  [i \in 1..Len(es) |-> Shown(es[i])]

\* C10 as stated: the stage events emitted are, in order, those of all the
\* internal stage events the graph produced.
C10_EveryStageEventForwarded ==
    \A r \in Runs :
        LET ps == SelectSeq(run[r].produced, IsStageEvent)
        IN  Forwarded(r) = [i \in 1..Len(ps) |-> External(ps[i])]

\* C10 amended: the stage events emitted are, in order, those of the internal
\* stage events the graph produced, but for the fragments without content,
\* which yield no event.
C10_NonEmptyStageEventsForwarded ==
    \A r \in Runs :
        LET ps == SelectSeq(run[r].produced,
                            LAMBDA ev : IsStageEvent(ev) /\ ~IsEmptyFragment(ev))
        IN  Forwarded(r) = [i \in 1..Len(ps) |-> External(ps[i])]

\* a run has ended with done after an empty fragment and a later fragment with
\* content
C10_Witness ==
    \E r \in Runs :
        /\ run[r].pc = "finished" /\ LastEmit(r).event = "done"
        /\ \E i, j \in 1..Len(run[r].produced) :
             /\ i < j
             /\ IsEmptyFragment(run[r].produced[i])
             /\ run[r].produced[j].event = "on_chat_model_stream"
             /\ ~IsEmptyFragment(run[r].produced[j])

RECURSIVE StageText(_, _, _, _)
\* the text the model streamed inside node n: the contents of the fragments
\* produced from the i-th event on, between n's on_chain_start and on_chain_end
StageText(evs, i, n, inside) ==
    IF i > Len(evs) THEN <<>>
    ELSE IF evs[i].event = "on_chain_start" /\ evs[i].name = n
    THEN StageText(evs, i + 1, n, TRUE)
    ELSE IF evs[i].event = "on_chain_end" /\ evs[i].name = n
    THEN <<>>
    ELSE IF inside /\ evs[i].event = "on_chat_model_stream"
    THEN evs[i].data.chunk.content \o StageText(evs, i + 1, n, inside)
    ELSE StageText(evs, i + 1, n, inside)

\* C12: the record of db_save is a record of the store, with the run's own
\* user_input, the text its analyzer streamed and the text its generator
\* streamed, and no other run's db_save carries the same record.
C12_RecordOfOwnRun ==
    \A r \in Runs : \A i \in 1..Len(run[r].emits) :
        run[r].emits[i].event = "db_save" =>
            LET rec == run[r].emits[i].data
            IN  /\ \E n \in 1..Len(records) : records[n] = rec
                /\ rec.user_input = run[r].user_input
                /\ rec.analysis = StageText(run[r].produced, 1, "analyzer", FALSE)
                /\ rec.response = StageText(run[r].produced, 1, "generator", FALSE)
                /\ \A r2 \in Runs \ {r} : \A j \in 1..Len(run[r2].emits) :
                       run[r2].emits[j].event = "db_save"
                           => run[r2].emits[j].data.id # rec.id

\* the runs of two sessions with different messages and different analyses have
\* both emitted db_save, the first started having saved last
C12_Witness ==
    \E r1, r2 \in Runs :
        /\ r1 < r2 /\ run[r1].sid # run[r2].sid
        /\ run[r1].user_input # run[r2].user_input
        /\ \E i \in 1..Len(run[r1].emits), j \in 1..Len(run[r2].emits) :
             /\ run[r1].emits[i].event = "db_save"
             /\ run[r2].emits[j].event = "db_save"
             /\ run[r1].emits[i].data.analysis # run[r2].emits[j].data.analysis
             /\ run[r1].emits[i].data = records[2]

\* the run has left the loop through an exception
Failed(r) ==
    \/ run[r].pc \in {"except", "crashed"}
    \/ run[r].pc = "finished" /\ LastEmit(r).event = "error"

\* the stage of a started run as a rank: NONE 0, the nodes 1..3 in their order
\* (a node keeps its rank until the next one is entered), DONE 4, FAILED 5
StageRank(r) ==
    IF Failed(r) THEN 5
    ELSE IF run[r].g = "begin" THEN 0
    ELSE IF run[r].g = "exhausted" THEN 4
    ELSE run[r].node

\* the key of the graph state node n writes
OwnField(n) ==
    CASE n = "analyzer" -> "analysis"
      [] n = "generator" -> "response"
      [] n = "saver" -> "saved_record"

\* the i-th produced event enters (kind = "on_chain_start") or leaves
\* (kind = "on_chain_end") the node named n
IsNodeEvent(r, i, kind, n) ==
    run[r].produced[i].event = kind /\ run[r].produced[i].name = n

\* no node is entered twice, and none while an earlier entered one has not exited
SequentialStages(r) ==
    \A i \in 1..Len(run[r].produced) : \A n \in NODE_NAMES :
        IsNodeEvent(r, i, "on_chain_start", n) =>
            \A j \in 1..(i - 1) : \A m \in NODE_NAMES :
                IsNodeEvent(r, j, "on_chain_start", m) =>
                    /\ m # n
                    /\ \E k \in (j + 1)..(i - 1) : IsNodeEvent(r, k, "on_chain_end", m)

\* one step of a started run: the stage stays, or moves to the next of the
\* order, or jumps to FAILED from a stage that is not terminal; a node is
\* entered with the update of the node before it merged into the state
StageStep(r) ==
    LET a == StageRank(r)
        b == StageRank(r)'
    IN  /\ \/ b = a
           \/ a < 4 /\ b = a + 1
           \/ a < 4 /\ b = 5
        /\ (b = a + 1 /\ a \in 1..2) =>
              /\ run[r].g = "exited"
              /\ OwnField(Order[a]) \in DOMAIN run'[r].state
              /\ run'[r].state[OwnField(Order[a])]
                     = (CHOOSE o \in run[r].ret : TRUE)[OwnField(Order[a])]
        /\ (b = 4) => "saved_record" \in DOMAIN run'[r].state

\* C13: the stage of a run only moves forward through NONE, analyzer,
\* generator, saver, DONE or jumps to FAILED from a stage that is not terminal;
\* no stage is entered twice, nor before the previous one exited and its update
\* was merged, nor while another is active; DONE and FAILED are never left.
C13_StageMovesForward ==
    /\ [](\A r \in Runs : SequentialStages(r))
    /\ [][\A r \in Runs : run[r].pc # "idle" => StageStep(r)]_vars

\* one run went through all stages to DONE, another failed inside generator
\* after analyzer's update was merged
C13_Witness ==
    \E r1, r2 \in Runs :
        /\ StageRank(r1) = 4 /\ run[r1].pc = "finished"
        /\ StageRank(r2) = 5 /\ run[r2].node = 2
        /\ "analysis" \in DOMAIN run[r2].state

\* the keys of GraphState
StateKeys == {"user_input", "analysis", "response", "saved_record"}

\* the produced events of run r hold the on_chain_end of node n
Completed(r, n) ==
    \E i \in 1..Len(run[r].produced) : IsNodeEvent(r, i, "on_chain_end", n)

\* the state of a started run: the request as given, and no key of a node
\* that has not completed; the update of an exited node has its own key only
OwnedFields(r) ==
    /\ DOMAIN run[r].state \subseteq StateKeys
    /\ run[r].state.user_input = run[r].user_input
    /\ \A n \in NODE_NAMES :
           OwnField(n) \in DOMAIN run[r].state => Completed(r, n)
    /\ run[r].g = "exited" =>
           \A o \in run[r].ret : DOMAIN o = {OwnField(Order[run[r].node])}

\* one step on the state of a started run: every key it has stays with its
\* value, and a new key is the one key of the node that has just exited
StateStep(r) ==
    /\ \A k \in DOMAIN run[r].state :
           k \in DOMAIN run'[r].state /\ run'[r].state[k] = run[r].state[k]
    /\ \A k \in DOMAIN run'[r].state \ DOMAIN run[r].state :
           /\ run[r].g = "exited"
           /\ k = OwnField(Order[run[r].node])
           /\ run'[r].state[k] = (CHOOSE o \in run[r].ret : TRUE)[k]

\* C14: in a run's state user_input is the request's and never changes;
\* analysis, response and saved_record are each written once, by analyzer,
\* generator and saver, a key is absent until its writer has completed, and an
\* update changes no key its node does not own.
C14_FieldsWrittenByOwner ==
    /\ [](\A r \in Runs : run[r].pc # "idle" => OwnedFields(r))
    /\ [][\A r \in Runs : run[r].pc # "idle" => StateStep(r)]_vars

\* a run has finished with all four keys written, its analysis not empty
C14_Witness ==
    \E r \in Runs :
        /\ run[r].pc = "finished"
        /\ DOMAIN run[r].state = StateKeys
        /\ run[r].state.analysis # <<>>
        /\ run[r].state.saved_record.analysis = run[r].state.analysis

\* the record mock_db.save returned to run r
SavedRecord(r) ==
    (CHOOSE o \in run[r].ret \cup {run[r].state} : "saved_record" \in DOMAIN o).saved_record

\* the runs whose save has completed
Savers == {r \in Runs : HasSaved(r)}

\* the store holds one record per completed save, each run's own at one
\* position and different runs' at different ones, under pairwise distinct ids;
\* a run that emitted done has saved
StoreHoldsEverySave ==
    /\ Len(records) = Cardinality(Savers)
    /\ \A r \in Savers :
           Cardinality({n \in 1..Len(records) : records[n] = SavedRecord(r)}) = 1
    /\ \A r1, r2 \in Savers : r1 # r2 => SavedRecord(r1) # SavedRecord(r2)
    /\ \A m, n \in 1..Len(records) : m # n => records[m].id # records[n].id
    /\ \A r \in Runs :
           (run[r].emits # <<>> /\ LastEmit(r).event = "done") => r \in Savers

\* one step on the store: a run that has saved does not save again, and the
\* records stay as they are and where they are, with one more at the end when
\* exactly one run's save completes
StoreStep ==
    LET new == {r \in Runs : HasSaved(r)' /\ ~HasSaved(r)}
    IN  /\ \A r \in Savers : HasSaved(r)' /\ SavedRecord(r)' = SavedRecord(r)
        /\ Len(records') = Len(records) + Cardinality(new)
        /\ Cardinality(new) <= 1
        /\ SubSeq(records', 1, Len(records)) = records

\* C15: each run saves at most once, and once when it ends with done; every
\* completed save adds one record, no save loses or overwrites another run's
\* record, stored records are never removed or reordered, and their ids are
\* pairwise distinct.
C15_StoreAppendOnly ==
    /\ []StoreHoldsEverySave
    /\ [][StoreStep]_vars

\* both runs have saved, the later started one first, and
\* both have ended with done
C15_Witness ==
    /\ Len(records) = 2
    /\ \A r \in Runs : run[r].pc = "finished" /\ LastEmit(r).event = "done"
    /\ SavedRecord(2) = records[1] /\ SavedRecord(1) = records[2]

\* run r has emitted done or error
EmittedTerminal(r) == Where(r, IsTerminal) # {}

\* C16 as stated: with a fair event loop and calls that return or raise, every
\* started run eventually emits done or error.
C16_EventuallyTerminal ==
    \A r \in Runs : (run[r].pc # "idle") ~> EmittedTerminal(r)

\* C16: with a fair event loop and calls that return or raise, every started
\* run eventually ends: it has emitted done or error, or the emit of error
\* raised and the handler ended with that exception.
C16_EventuallyEnds ==
    \A r \in Runs :
        (run[r].pc # "idle") ~> (Ended(r) /\ (EmittedTerminal(r) \/ run[r].pc = "crashed"))

\* two runs interleaved on one session, one ended with done and the other with
\* error after its generator raised
C16_Witness ==
    \E r1, r2 \in Runs :
        /\ run[r1].sid = run[r2].sid
        /\ Ended(r1) /\ LastEmit(r1).event = "done"
        /\ Ended(r2) /\ run[r2].emits # <<>> /\ LastEmit(r2).event = "error"
        /\ run[r2].g = "failed" /\ run[r2].node = 2
        /\ Len(run[r1].produced) > 2 /\ run[r2].pc = "finished"

RECURSIVE Fragments(_, _, _, _)
\* what the model returned to node n of a run, fragment by fragment: the
\* contents streamed from the i-th produced event on, inside node n
Fragments(evs, i, n, inside) ==
    IF i > Len(evs) THEN <<>>
    ELSE IF evs[i].event = "on_chain_start" /\ evs[i].name = n
    THEN Fragments(evs, i + 1, n, TRUE)
    ELSE IF evs[i].event = "on_chain_end" /\ evs[i].name = n
    THEN <<>>
    ELSE IF inside /\ evs[i].event = "on_chat_model_stream"
    THEN <<evs[i].data.chunk.content>> \o Fragments(evs, i + 1, n, inside)
    ELSE Fragments(evs, i + 1, n, inside)

\* the events of one node that streams the fragments fs, up to its last token
AloneOpen(sid, n, fs) ==
    LET shown == SelectSeq(fs, LAMBDA c : c # <<>>)
    IN  <<[event |-> "node_start", data |-> [node |-> n], to |-> sid]>>
        \o [i \in 1..Len(shown) |->
               [event |-> "token", data |-> [node |-> n, content |-> shown[i]],
                to |-> sid]]

\* the node_end of node n that returned the update out
AloneClose(sid, n, out) ==
    [event |-> "node_end",
     data |-> [node |-> n, output |-> Slice(StrOutput(out), OutputLimit)],
     to |-> sid]

\* the event sequence of a run executed with no other run: of the request
\* msg on session sid, with the model returning fs1 to analyzer and fs2 to
\* generator, or raising e in node `failed` (0: in none), and the store
\* assigning id and created_at
AloneEmits(sid, msg, fs1, fs2, failed, e, id, created_at) ==
    LET error == [event |-> "error", data |-> [message |-> e], to |-> sid]
        rec == [id |-> id, created_at |-> created_at, user_input |-> msg,
                analysis |-> Concat(fs1), response |-> Concat(fs2)]
        first == AloneOpen(sid, "analyzer", fs1)
        second == <<AloneClose(sid, "analyzer", [analysis |-> Concat(fs1)])>>
                  \o AloneOpen(sid, "generator", fs2)
        third == <<AloneClose(sid, "generator", [response |-> Concat(fs2)]),
                   [event |-> "node_start", data |-> [node |-> "saver"], to |-> sid],
                   AloneClose(sid, "saver", [saved_record |-> rec]),
                   [event |-> "db_save", data |-> rec, to |-> sid],
                   [event |-> "done", data |-> [success |-> TRUE], to |-> sid]>>
    IN  IF failed = 1 THEN first \o <<error>>
        ELSE IF failed = 2 THEN first \o second \o <<error>>
        ELSE first \o second \o third

\* the events of an ended run are those of the same run executed alone
SameAsAlone(r) ==
    LET fs1 == Fragments(run[r].produced, 1, "analyzer", FALSE)
        fs2 == Fragments(run[r].produced, 1, "generator", FALSE)
        failed == IF run[r].g = "failed" THEN run[r].node ELSE 0
        id == IF HasSaved(r) THEN SavedRecord(r).id ELSE <<>>
        created_at == IF HasSaved(r) THEN SavedRecord(r).created_at ELSE <<>>
    IN  run[r].emits = AloneEmits(run[r].sid, run[r].user_input, fs1, fs2,
                                  failed, run[r].exc, id, created_at)

\* a step of one run changes no other run and nothing of the sessions, and a
\* step of a session changes no started run
OnlyStoreShared ==
    \A r \in Runs : run[r].pc # "idle" /\ run'[r] # run[r] =>
        /\ \A q \in Runs \ {r} : run'[q] = run[q]
        /\ UNCHANGED <<session, hello, nruns>>

\* C17: the event sequence of a run is the one the same request yields alone
\* with the same texts or error from the model, whatever other runs did in
\* between, up to the id and created_at the store assigned; a run's step
\* changes nothing another run reads but the store.
C17_RunsIndependent ==
    /\ [](\A r \in Runs : run[r].pc = "finished" => SameAsAlone(r))
    /\ [][OnlyStoreShared]_vars

\* two runs with different requests have ended: one with error after its
\* analyzer raised, the other with done and a token of generator
C17_Witness ==
    \E r1, r2 \in Runs :
        /\ run[r1].pc = "finished" /\ run[r2].pc = "finished"
        /\ run[r1].user_input # run[r2].user_input
        /\ run[r1].g = "failed" /\ run[r1].node = 1
        /\ LastEmit(r2).event = "done"
        /\ Where(r2, LAMBDA e : e.event = "token" /\ e.data.node = "generator") # {}
        /\ Len(run[r1].emits) > 1

\* every run of session s has emitted done or error and returned
NoActiveRun(s) ==
    \A r \in Runs : run[r].sid = s => run[r].pc = "finished" /\ EmittedTerminal(r)

\* a connected session whose run has ended is served its next chat message
\* (while the handlers the model counts are not used up)
NextChatAdmitted ==
    \A s \in Sids :
        (/\ session[s] = "connected"
         /\ \E r \in Runs : run[r].sid = s
         /\ NoActiveRun(s)
         /\ nruns < MaxRuns)
            => \A data \in Datas : ENABLED Chat(s, data)

\* the step that starts a handler gives it new locals and a new graph run,
\* with nothing of an earlier run, and changes no earlier run
StartsFresh ==
    nruns' # nruns =>
        LET h == run'[nruns']
        IN  /\ nruns' = nruns + 1
            /\ h.pc = "loop" /\ h.emits = <<>> /\ h.produced = <<>>
            /\ h.current_node = None /\ h.exc = <<>>
            /\ h.g = "begin" /\ h.node = 0 /\ h.acc = <<>> /\ h.ret = {}
            /\ session[h.sid] = "connected"
            /\ \E data \in Datas : /\ h.user_input = GetMessage(data)
                                   /\ h.state = [user_input |-> GetMessage(data)]
            /\ \A r \in Runs \ {nruns'} : run'[r] = run[r]

\* of two ended runs of one session, each has the events of a run executed
\* alone, through all its stages when it ended with done
LaterRunUnaffected ==
    \A r1, r2 \in Runs :
        (r1 # r2 /\ run[r1].sid = run[r2].sid /\ run[r1].sid # None
         /\ run[r1].pc = "finished" /\ run[r2].pc = "finished")
            => /\ SameAsAlone(r2)
               /\ LastEmit(r2).event = "done" =>
                      RunShape(0, run[r2].emits, 1) = 9

\* C18: once a session's run has emitted done or error, a chat message on the
\* still connected session is admitted and starts a fresh run, whose events
\* follow the full stage sequence whatever the earlier run's stage, tokens or
\* outcome were.
C18_NextChatStartsFresh ==
    /\ [](NextChatAdmitted /\ LaterRunUnaffected)
    /\ [][StartsFresh]_vars

\* on a session that stayed connected the first run ended with error in
\* generator after a token of analyzer, the second ended with done
C18_Witness ==
    /\ run[1].pc = "finished" /\ LastEmit(1).event = "error"
    /\ run[1].sid = run[2].sid /\ session[run[1].sid] = "connected"
    /\ run[1].node = 2
    /\ Where(1, LAMBDA e : e.event = "token") # {}
    /\ run[2].pc = "finished" /\ LastEmit(2).event = "done"

\* the keys of the graph state in insertion order
StateOrder == <<"user_input", "analysis", "response", "saved_record">>

\* str() of a graph state
StrState(st) ==
    LET keys == SelectSeq(StateOrder, LAMBDA k : k \in DOMAIN st)
        Item(k) == ReprKey(k) \o (IF k = "saved_record" THEN ReprRecord(st[k])
                                  ELSE ReprStr(st[k]))
        Items[i \in 0..Len(keys)] ==
            IF i = 0 THEN <<>>
            ELSE Items[i - 1] \o (IF i > 1 THEN <<",", " ">> ELSE <<>>) \o Item(keys[i])
    IN  <<"{">> \o Items[Len(keys)] \o <<"}">>

\* the output field of the last node_end run r has emitted
LastNodeEndOutput(r) ==
    LET ends == Where(r, LAMBDA e : e.event = "node_end")
    IN  run[r].emits[CHOOSE i \in ends : \A j \in ends : j <= i].data.output

\* out is the first OutputLimit characters of whole, all of it when it has
\* no more
CutOf(out, whole) ==
    /\ Len(out) <= OutputLimit
    /\ Len(whole) <= OutputLimit => out = whole
    /\ Len(whole) > OutputLimit =>
           Len(out) = OutputLimit /\ \A i \in 1..OutputLimit : out[i] = whole[i]

\* C19 as stated: the output of node_end is str() of the merged graph state
\* after the exited node, cut to its first 500 characters.
C19_OutputRendersMergedState ==
    \A r \in Runs :
        (run[r].pc = "loop" /\ run[r].g = "exited")
            => CutOf(LastNodeEndOutput(r), StrState(Merged(run[r])))

\* C19: the output of node_end is str() of the update the exited node
\* returned, cut to its first 500 characters: never longer than 500, and the
\* whole text when that has 500 characters or fewer.
C19_OutputRendersUpdate ==
    /\ \A r \in Runs : \A i \in Where(r, LAMBDA e : e.event = "node_end") :
           Len(run[r].emits[i].data.output) <= OutputLimit
    /\ \A r \in Runs :
           (run[r].pc = "loop" /\ run[r].g = "exited")
               => CutOf(LastNodeEndOutput(r),
                        StrOutput(CHOOSE o \in run[r].ret : TRUE))

\* a run has emitted a node_end with a whole text of exactly 500 characters,
\* one cut from 501 to 500, and the saver's cut from more
C19_Witness ==
    \E r \in Runs :
        /\ run[r].pc = "loop" /\ run[r].g = "exited" /\ run[r].node = 3
        /\ Len(StrOutput([analysis |-> run[r].state.analysis])) = OutputLimit
        /\ Len(StrOutput([response |-> run[r].state.response])) = OutputLimit + 1
        /\ Len(LastNodeEndOutput(r)) = OutputLimit
        /\ \E i, j \in Where(r, LAMBDA e : e.event = "node_end") :
               /\ run[r].emits[i].data.node = "analyzer"
               /\ run[r].emits[i].data.output = StrOutput([analysis |-> run[r].state.analysis])
               /\ run[r].emits[j].data.node = "generator"
               /\ Len(run[r].emits[j].data.output) = OutputLimit

\* an on_chat_model_stream event whose data has no chunk
NoChunkEvent == [event |-> "on_chat_model_stream", name |-> "ChatOllama", data |-> <<>>]

\* no token emitted has empty content, and the loop body given a model-stream
\* event without chunk where a handler stands emits nothing and keeps the node
NoEmptyToken ==
    \A r \in Runs :
        /\ \A i \in Where(r, LAMBDA e : e.event = "token") :
               run[r].emits[i].data.content # <<>>
        /\ run[r].pc = "loop" =>
               LoopBody(run[r].current_node, NoChunkEvent, run[r].sid)
                   = [current_node |-> run[r].current_node, calls |-> <<>>]

\* the iteration for a model-stream event with empty content emits nothing:
\* the handler's emits and its current node are after it what they were
EmptyFragmentStep ==
    \A r \in Runs :
        (/\ Len(run'[r].produced) = Len(run[r].produced) + 1
         /\ IsEmptyFragment(run'[r].produced[Len(run'[r].produced)]))
            => /\ run'[r].emits = run[r].emits
               /\ run'[r].current_node = run[r].current_node
               /\ run'[r].pc = run[r].pc

\* C20: no token carries empty content; the iteration for a model-stream event
\* with empty content or without chunk emits nothing and leaves the handler's
\* current node and the events emitted so far as they were.
C20_EmptyFragmentSkipped ==
    /\ []NoEmptyToken
    /\ [][EmptyFragmentStep]_vars

\* a run ended with done whose analyzer streamed an empty fragment and whose
\* generator streamed a text: one token, of generator
C20_Witness ==
    \E r \in Runs :
        /\ run[r].pc = "finished" /\ LastEmit(r).event = "done"
        /\ Fragments(run[r].produced, 1, "analyzer", FALSE) = << <<>> >>
        /\ Fragments(run[r].produced, 1, "generator", FALSE) # << <<>> >>
        /\ Cardinality(Where(r, LAMBDA e : e.event = "token")) = 1
        /\ \A i \in Where(r, LAMBDA e : e.event = "token") :
               run[r].emits[i].data.node = "generator"

====
